---- MODULE Spec2Model ----
(***************************************************************************)
(* Model of src/app.py: the capture-and-describe loop (surveillance_loop   *)
(* with safe_read, encode_image and describe_image), the shared list       *)
(* analysis_logs, the /logs handler get_logs, and the process entry point  *)
(* that runs the loop on a daemon thread next to the HTTP server.          *)
(*                                                                         *)
(* Granularity: one action per statement of the loop that reads or writes  *)
(* state another thread can see or that can fail.  CPython runs one        *)
(* bytecode at a time under the interpreter lock, so list.append, list.pop *)
(* and the C-level serialisation inside jsonify are each one step; the     *)
(* steps of the loop and of the request threads interleave freely.         *)
(***************************************************************************)
EXTENDS Integers, Sequences, FiniteSets, TLC

VARIABLES
    process,        \* "running" | "exited": the whole OS process (app.py:176-179)
    pc,             \* position of the surveillance_loop thread
    handles,        \* every cv2.VideoCapture object created so far, in creation order
    cap,            \* surveillance_loop's local `cap`: index into handles
    sr,             \* the activation record of the current/last safe_read call
    frame,          \* surveillance_loop's local `frame`: "None" | "frame" | "unset"
    frame_count,    \* surveillance_loop's local `frame_count`
    timestamp,      \* surveillance_loop's local `timestamp`
    description,    \* surveillance_loop's local `description`
    analysis_logs,  \* the module-level list (app.py:20)
    now,            \* the wall clock, in ticks
    rpc,            \* per request thread: "idle" | "handling"
    response,       \* the HTTP response most recently sent by a request thread
    appended,       \* history: every entry passed to analysis_logs.append, in order
    cycles,         \* history: outcome of every finished safe_read call, in order
    inference,      \* history: what ollama.chat did for the frame being processed
    describe_calls  \* history: number of describe_image calls started

vars == <<process, pc, handles, cap, sr, frame, frame_count, timestamp, description,
          analysis_logs, now, rpc, response, appended, cycles, inference, describe_calls>>

loopVars == <<pc, handles, cap, sr, frame, frame_count, timestamp, description,
              analysis_logs, appended, cycles, inference, describe_calls>>

(***************************************************************************)
(* Bounds of the model and constants of the program.                      *)
(***************************************************************************)
Capacity == 100
MaxFrames == 2
MaxFramesLong == 102
MaxHandles == 2
MaxHandlesRecover == 3
MaxClock == 2
ClockResolution == 2
MaxContentLen == 4

(***************************************************************************)
(* Strings are sequences of characters, so that str.strip() is computed.   *)
(***************************************************************************)
Chars == {"a", " ", "\n"}
Whitespace == {" ", "\n"}
StringsUpTo(n) == UNION {[1..k -> Chars] : k \in 0..n}

Fallback ==
    <<"E","v","e","r","y","t","h","i","n","g"," ","l","o","o","k","s"," ",
      "n","o","r","m","a","l",".">>

RECURSIVE LStrip(_)
LStrip(s) == IF s # <<>> /\ Head(s) \in Whitespace THEN LStrip(Tail(s)) ELSE s

RECURSIVE RStrip(_)
RStrip(s) ==
    IF s # <<>> /\ s[Len(s)] \in Whitespace THEN RStrip(SubSeq(s, 1, Len(s) - 1)) ELSE s

Strip(s) == RStrip(LStrip(s))

(***************************************************************************)
(* What ollama.chat can do: raise, or return a response that lacks         *)
(* "message", whose message is None (no .get), whose message lacks         *)
(* "content", whose content is None (no .strip), or whose content is a     *)
(* string.                                                                 *)
(***************************************************************************)
Outcomes(contents) ==
    {[kind |-> k, content |-> <<>>] : k \in {"raise", "no_message", "message_none", "no_content", "content_none"}}
    \cup {[kind |-> "text", content |-> s] : s \in contents}

OutcomesUpTo(n) == Outcomes(StringsUpTo(n))

\* The contents the loop is run with, one or two of each kind app.py:42 tells
\* apart: empty, whitespace only, text, and text with whitespace around it.
\* describe_image alone is run on every string up to MaxContentLen (SpecDescribe).
InferenceContents == {<<>>, <<" ">>, <<"\n">>, <<"a">>, <<" ", "a", "\n">>}

InferenceOutcomes == Outcomes(InferenceContents)

RichInferenceOutcomes == OutcomesUpTo(MaxContentLen)

LongInferenceOutcomes == {[kind |-> "text", content |-> <<"a">>]}

NoInference == [kind |-> "unset", content |-> <<>>]

\* describe_image with .strip() left out of app.py:42
describe_image_unstripped(o) ==
    IF o.kind \in {"raise", "message_none", "content_none"}
    THEN Fallback
    ELSE LET content == IF o.kind = "text" THEN o.content ELSE <<>>
         IN IF content # <<>> THEN content ELSE Fallback

\* describe_image without the `or "Everything looks normal."` of app.py:42
describe_image_no_fallback(o) ==
    IF o.kind \in {"raise", "message_none", "content_none"}
    THEN Fallback
    ELSE Strip(IF o.kind = "text" THEN o.content ELSE <<>>)

\* app.py:36-45
describe_image(o) ==
    IF o.kind \in {"raise", "message_none", "content_none"}
    THEN Fallback                          \* except Exception (AttributeError included)
    ELSE LET content == IF o.kind = "text" THEN o.content ELSE <<>>
             stripped == Strip(content)
         IN IF stripped # <<>> THEN stripped ELSE Fallback

\* datetime.now().strftime("%Y-%m-%d %H:%M:%S"): the clock truncated to whole seconds
strftime(t) == t \div ClockResolution

\* jsonify on a list of dicts of int and str: a 200 response whose body is the array
jsonify(logs) == [status |-> 200, body |-> logs]

NoResponse == [status |-> 0, body |-> <<>>]

Readers == {"r1", "r2"}
LongReaders == {"r1"}

\* cv2.VideoCapture(url, cv2.CAP_FFMPEG): a new capture object, opened or not
VideoCapture(ok) == [opened |-> ok, released |-> FALSE]

\* cap.release()
release(hs, h) == [hs EXCEPT ![h].released = TRUE]

\* cap.read(): ret can be True only on a capture that is open
ReadRets(h, rets) == IF h.opened /\ ~h.released THEN rets ELSE {FALSE}

NoCall == [cap_in |-> 0, cap |-> 0, ret1 |-> "unset", ret2 |-> "unset",
           releases |-> 0, reopens |-> 0]

Init ==
    /\ process = "running"
    /\ pc = "start"
    /\ handles = <<>>
    /\ cap = 0
    /\ sr = NoCall
    /\ frame = "unset"
    /\ frame_count = 0
    /\ timestamp = 0
    /\ description = <<>>
    /\ analysis_logs = <<>>
    /\ now = 0
    /\ rpc = [r \in Readers |-> "idle"]
    /\ response = NoResponse
    /\ appended = <<>>
    /\ cycles = <<>>
    /\ inference = NoInference
    /\ describe_calls = 0

(***************************************************************************)
(* surveillance_loop, app.py:62-96                                         *)
(***************************************************************************)
\* Start with the isOpened check of app.py:65-67 left out
Start_unchecked(opens) ==
    /\ process = "running" /\ pc = "start"
    /\ \E ok \in opens :
        /\ handles' = Append(handles, VideoCapture(ok))
        /\ cap' = Len(handles) + 1
        /\ pc' = "read"
    /\ UNCHANGED <<process, sr, frame, frame_count, timestamp, description, analysis_logs,
                   now, rpc, response, appended, cycles, inference, describe_calls>>

\* app.py:64-69
Start(opens) ==
    /\ process = "running" /\ pc = "start"
    /\ \E ok \in opens :
        /\ handles' = Append(handles, VideoCapture(ok))
        /\ cap' = Len(handles) + 1
        /\ pc' = IF ok THEN "read" ELSE "fatal"
    /\ UNCHANGED <<process, sr, frame, frame_count, timestamp, description, analysis_logs,
                   now, rpc, response, appended, cycles, inference, describe_calls>>

\* app.py:72 calling safe_read, app.py:48-49 and the return at :57
Read(rets, maxFrames, maxHandles) ==
    /\ process = "running" /\ pc = "read"
    /\ frame_count < maxFrames
    /\ \E ret \in ReadRets(handles[cap], rets) :
        IF ret
        THEN /\ sr' = [cap_in |-> cap, cap |-> cap, ret1 |-> "ok", ret2 |-> "unset",
                       releases |-> 0, reopens |-> 0]
             /\ frame' = "frame"
             /\ cap' = cap
             /\ cycles' = Append(cycles, "frame")
             /\ pc' = "check_frame"
        ELSE /\ Len(handles) < maxHandles
             /\ sr' = [cap_in |-> cap, cap |-> cap, ret1 |-> "fail", ret2 |-> "unset",
                       releases |-> 0, reopens |-> 0]
             /\ pc' = "release"
             /\ UNCHANGED <<frame, cap, cycles>>
    /\ UNCHANGED <<process, handles, frame_count, timestamp, description, analysis_logs,
                   now, rpc, response, appended, inference, describe_calls>>

\* Release with cap.release() of app.py:51 left out
Release_skipped ==
    /\ process = "running" /\ pc = "release"
    /\ pc' = "reopen"
    /\ UNCHANGED <<process, handles, cap, sr, frame, frame_count, timestamp, description,
                   analysis_logs, now, rpc, response, appended, cycles, inference,
                   describe_calls>>

\* app.py:50-51
Release ==
    /\ process = "running" /\ pc = "release"
    /\ handles' = release(handles, sr.cap)
    /\ sr' = [sr EXCEPT !.releases = @ + 1]
    /\ pc' = "reopen"
    /\ UNCHANGED <<process, cap, frame, frame_count, timestamp, description, analysis_logs,
                   now, rpc, response, appended, cycles, inference, describe_calls>>

\* app.py:52-53
Reopen(opens) ==
    /\ process = "running" /\ pc = "reopen"
    /\ \E ok \in opens :
        /\ handles' = Append(handles, VideoCapture(ok))
        /\ sr' = [sr EXCEPT !.cap = Len(handles) + 1, !.reopens = @ + 1]
    /\ pc' = "reread"
    /\ UNCHANGED <<process, cap, frame, frame_count, timestamp, description, analysis_logs,
                   now, rpc, response, appended, cycles, inference, describe_calls>>

\* Reread with the returned handle dropped at app.py:72 (`_, frame = safe_read(...)`)
Reread_keeps_old_cap(rets) ==
    /\ process = "running" /\ pc = "reread"
    /\ \E ret \in ReadRets(handles[sr.cap], rets) :
        /\ sr' = [sr EXCEPT !.ret2 = IF ret THEN "ok" ELSE "fail"]
        /\ frame' = IF ret THEN "frame" ELSE "None"
        /\ cycles' = Append(cycles, IF ret THEN "frame" ELSE "None")
    /\ pc' = "check_frame"
    /\ UNCHANGED <<process, handles, cap, frame_count, timestamp, description,
                   analysis_logs, now, rpc, response, appended, inference, describe_calls>>

\* app.py:54-57 and the assignment of the returned pair at :72
Reread(rets) ==
    /\ process = "running" /\ pc = "reread"
    /\ \E ret \in ReadRets(handles[sr.cap], rets) :
        /\ sr' = [sr EXCEPT !.ret2 = IF ret THEN "ok" ELSE "fail"]
        /\ frame' = IF ret THEN "frame" ELSE "None"
        /\ cycles' = Append(cycles, IF ret THEN "frame" ELSE "None")
    /\ cap' = sr.cap
    /\ pc' = "check_frame"
    /\ UNCHANGED <<process, handles, frame_count, timestamp, description, analysis_logs,
                   now, rpc, response, appended, inference, describe_calls>>

\* CheckFrame with frame_count += 1 placed before the test of app.py:73
CheckFrame_counts_first ==
    /\ process = "running" /\ pc = "check_frame"
    /\ frame_count' = IF frame = "None" THEN frame_count + 1 ELSE frame_count
    /\ pc' = IF frame = "None" THEN "read" ELSE "count"
    /\ UNCHANGED <<process, handles, cap, sr, frame, timestamp, description,
                   analysis_logs, now, rpc, response, appended, cycles, inference,
                   describe_calls>>

\* CheckFrame with the `continue` of app.py:74 left out
CheckFrame_no_continue ==
    /\ process = "running" /\ pc = "check_frame"
    /\ pc' = "count"
    /\ UNCHANGED <<process, handles, cap, sr, frame, frame_count, timestamp, description,
                   analysis_logs, now, rpc, response, appended, cycles, inference,
                   describe_calls>>

\* app.py:73-74
CheckFrame ==
    /\ process = "running" /\ pc = "check_frame"
    /\ pc' = IF frame = "None" THEN "read" ELSE "count"
    /\ UNCHANGED <<process, handles, cap, sr, frame, frame_count, timestamp, description,
                   analysis_logs, now, rpc, response, appended, cycles, inference,
                   describe_calls>>

\* app.py:76
Count ==
    /\ process = "running" /\ pc = "count"
    /\ frame_count' = frame_count + 1
    /\ pc' = "stamp"
    /\ UNCHANGED <<process, handles, cap, sr, frame, timestamp, description, analysis_logs,
                   now, rpc, response, appended, cycles, inference, describe_calls>>

\* app.py:77
Stamp ==
    /\ process = "running" /\ pc = "stamp"
    /\ timestamp' = strftime(now)
    /\ pc' = "encode"
    /\ UNCHANGED <<process, handles, cap, sr, frame, frame_count, description, analysis_logs,
                   now, rpc, response, appended, cycles, inference, describe_calls>>

\* app.py:79 (encode_image, app.py:25-29, is outside every except clause but
\* inside the try whose finally is app.py:95-96)
Encode(oks) ==
    /\ process = "running" /\ pc = "encode"
    /\ \E ok \in oks : pc' = IF ok THEN "describe" ELSE "finally"
    /\ UNCHANGED <<process, handles, cap, sr, frame, frame_count, timestamp, description,
                   analysis_logs, now, rpc, response, appended, cycles, inference,
                   describe_calls>>

\* Describe with the ollama.chat call tried a second time after it raised
Describe_retries(outcomes) ==
    /\ process = "running" /\ pc = "describe"
    /\ \E o \in outcomes :
        /\ inference' = o
        /\ describe_calls' = describe_calls + (IF o.kind = "raise" THEN 2 ELSE 1)
    /\ pc' = "describe_return"
    /\ UNCHANGED <<process, handles, cap, sr, frame, frame_count, timestamp, description,
                   analysis_logs, now, rpc, response, appended, cycles>>

\* app.py:80 calling describe_image, app.py:32-41: the blocking ollama.chat call,
\* which raises or returns a response
Describe(outcomes) ==
    /\ process = "running" /\ pc = "describe"
    /\ \E o \in outcomes : inference' = o
    /\ describe_calls' = describe_calls + 1
    /\ pc' = "describe_return"
    /\ UNCHANGED <<process, handles, cap, sr, frame, frame_count, timestamp, description,
                   analysis_logs, now, rpc, response, appended, cycles>>

\* app.py:42-45 and the assignment at :80
DescribeReturn ==
    /\ process = "running" /\ pc = "describe_return"
    /\ description' = describe_image(inference)
    /\ pc' = "append"
    /\ UNCHANGED <<process, handles, cap, sr, frame, frame_count, timestamp, analysis_logs,
                   now, rpc, response, appended, cycles, inference, describe_calls>>

log_entry == [frame_number |-> frame_count, timestamp |-> timestamp,
              description |-> description]

\* AppendEntry made to wait until no request is being handled (a lock shared
\* with get_logs and held for the whole request)
AppendEntry_waits_for_readers ==
    /\ \A r \in DOMAIN rpc : rpc[r] = "idle"
    /\ process = "running" /\ pc = "append"
    /\ analysis_logs' = Append(analysis_logs, log_entry)
    /\ appended' = Append(appended, log_entry)
    /\ inference' = NoInference
    /\ pc' = "evict"
    /\ UNCHANGED <<process, handles, cap, sr, frame, frame_count, timestamp, description,
                   now, rpc, response, cycles, describe_calls>>

\* app.py:82-87
AppendEntry ==
    /\ process = "running" /\ pc = "append"
    /\ analysis_logs' = Append(analysis_logs, log_entry)
    /\ appended' = Append(appended, log_entry)
    /\ inference' = NoInference
    /\ pc' = "evict"
    /\ UNCHANGED <<process, handles, cap, sr, frame, frame_count, timestamp, description,
                   now, rpc, response, cycles, describe_calls>>

\* evict with pop() in place of pop(0) at app.py:89
evict_pop_last(logs) ==
    IF Len(logs) > Capacity THEN SubSeq(logs, 1, Len(logs) - 1) ELSE logs

\* app.py:88-89
evict(logs) == IF Len(logs) > Capacity THEN Tail(logs) ELSE logs

\* app.py:88-91
Evict ==
    /\ process = "running" /\ pc = "evict"
    /\ analysis_logs' = evict(analysis_logs)
    /\ pc' = "read"
    /\ UNCHANGED <<process, handles, cap, sr, frame, frame_count, timestamp, description,
                   now, rpc, response, appended, cycles, inference, describe_calls>>

\* Finally with cap.release() of app.py:96 left out
Finally_no_release ==
    /\ process = "running" /\ pc = "finally"
    /\ pc' = "crashed"
    /\ UNCHANGED <<process, handles, cap, sr, frame, frame_count, timestamp, description,
                   analysis_logs, now, rpc, response, appended, cycles, inference,
                   describe_calls>>

\* app.py:95-96, reached with the exception of app.py:79 pending: the thread ends
Finally ==
    /\ process = "running" /\ pc = "finally"
    /\ handles' = release(handles, cap)
    /\ pc' = "crashed"
    /\ UNCHANGED <<process, cap, sr, frame, frame_count, timestamp, description,
                   analysis_logs, now, rpc, response, appended, cycles, inference,
                   describe_calls>>

(***************************************************************************)
(* The HTTP server threads, app.py:101-103                                 *)
(***************************************************************************)
\* a GET /logs request is dispatched to a thread of the server
Request(r) ==
    /\ process = "running" /\ rpc[r] = "idle"
    /\ rpc' = [rpc EXCEPT ![r] = "handling"]
    /\ UNCHANGED <<process, now, response>>
    /\ UNCHANGED loopVars

\* app.py:103
get_logs(r) ==
    /\ process = "running" /\ rpc[r] = "handling"
    /\ response' = jsonify(analysis_logs)
    /\ rpc' = [rpc EXCEPT ![r] = "idle"]
    /\ UNCHANGED <<process, now>>
    /\ UNCHANGED loopVars

(***************************************************************************)
(* The environment: time passes; the process is told to shut down.         *)
(***************************************************************************)
\* datetime.now() (app.py:77) reads the naive local wall clock, which the loop
\* does not control: between two reads it may have advanced or stepped back
\* (clock set back, end of daylight saving time).
Tick ==
    /\ process = "running"
    /\ \E t \in 0..MaxClock : t # now /\ now' = t
    /\ UNCHANGED <<process, rpc, response>>
    /\ UNCHANGED loopVars

\* app.py:176-179.  The signal is delivered to the main thread, which runs
\* app.run; the loop runs on a daemon thread, which never receives
\* KeyboardInterrupt (app.py:93 cannot fire there) and is abandoned where it
\* stands when the interpreter exits, without running its finally block.
Shutdown ==
    /\ process = "running"
    /\ process' = "exited"
    /\ UNCHANGED <<now, rpc, response>>
    /\ UNCHANGED loopVars

\* One step of the surveillance_loop thread, app.py:62-96
LoopStep ==
    \/ Start(BOOLEAN)
    \/ Read(BOOLEAN, MaxFrames, MaxHandles)
    \/ Release
    \/ Reopen(BOOLEAN)
    \/ Reread(BOOLEAN)
    \/ CheckFrame
    \/ Count
    \/ Stamp
    \/ Encode(BOOLEAN)
    \/ Describe(InferenceOutcomes)
    \/ DescribeReturn
    \/ AppendEntry
    \/ Evict
    \/ Finally

Next ==
    \/ Start(BOOLEAN)
    \/ Read(BOOLEAN, MaxFrames, MaxHandles)
    \/ Release
    \/ Reopen(BOOLEAN)
    \/ Reread(BOOLEAN)
    \/ CheckFrame
    \/ Count
    \/ Stamp
    \/ Encode(BOOLEAN)
    \/ Describe(InferenceOutcomes)
    \/ DescribeReturn
    \/ AppendEntry
    \/ Evict
    \/ Finally
    \/ \E r \in Readers : Request(r)
    \/ \E r \in Readers : get_logs(r)
    \/ Tick
    \/ Shutdown

Spec == Init /\ [][Next]_vars

(***************************************************************************)
(* The same program on a long run: the source opens, every read and every  *)
(* encoding succeeds and the service answers with text, so that the loop   *)
(* gets past Capacity appended entries while requests are served.          *)
(***************************************************************************)
NextLong ==
    \/ Start({TRUE})
    \/ Read({TRUE}, MaxFramesLong, MaxHandles)
    \/ CheckFrame
    \/ Count
    \/ Stamp
    \/ Encode({TRUE})
    \/ Describe(LongInferenceOutcomes)
    \/ DescribeReturn
    \/ AppendEntry
    \/ Evict
    \/ \E r \in LongReaders : Request(r)
    \/ \E r \in LongReaders : get_logs(r)

SpecLong == Init /\ [][NextLong]_vars

(***************************************************************************)
(* describe_image on its own: from the state in which the first frame has  *)
(* been read, counted, stamped and encoded, the call at app.py:80 is made  *)
(* with every outcome of ollama.chat up to MaxContentLen characters.       *)
(***************************************************************************)
InitDescribe ==
    /\ process = "running"
    /\ pc = "describe"
    /\ handles = <<VideoCapture(TRUE)>>
    /\ cap = 1
    /\ sr = [cap_in |-> 1, cap |-> 1, ret1 |-> "ok", ret2 |-> "unset",
             releases |-> 0, reopens |-> 0]
    /\ frame = "frame"
    /\ frame_count = 1
    /\ timestamp = strftime(0)
    /\ description = <<>>
    /\ analysis_logs = <<>>
    /\ now = 0
    /\ rpc = [r \in Readers |-> "idle"]
    /\ response = NoResponse
    /\ appended = <<>>
    /\ cycles = <<"frame">>
    /\ inference = NoInference
    /\ describe_calls = 0

NextDescribe ==
    \/ Describe(RichInferenceOutcomes)
    \/ DescribeReturn

SpecDescribe == InitDescribe /\ [][NextDescribe]_vars

(***************************************************************************)
(* The loop under fair scheduling, for recovery after an outage: reads may  *)
(* fail and reopened captures may fail to open until MaxHandlesRecover      *)
(* capture objects exist; the last of them opens and its reads succeed.     *)
(* The loop thread keeps running (weak fairness on its steps) and the       *)
(* process is not shut down.                                                *)
(***************************************************************************)
RecoverOpens == IF Len(handles) + 1 >= MaxHandlesRecover THEN {TRUE} ELSE BOOLEAN

LoopRecover(encodes) ==
    \/ Start(BOOLEAN)
    \/ Read(BOOLEAN, MaxFrames, MaxHandlesRecover)
    \/ Release
    \/ Reopen(RecoverOpens)
    \/ Reread(BOOLEAN)
    \/ CheckFrame
    \/ Count
    \/ Stamp
    \/ Encode(encodes)
    \/ Describe(InferenceOutcomes)
    \/ DescribeReturn
    \/ AppendEntry
    \/ Evict
    \/ Finally

NextRecover ==
    \/ LoopRecover(BOOLEAN)
    \/ \E r \in LongReaders : Request(r)
    \/ \E r \in LongReaders : get_logs(r)

SpecRecover == Init /\ [][NextRecover]_vars /\ WF_vars(LoopRecover(BOOLEAN))

(***************************************************************************)
(* Properties                                                              *)
(***************************************************************************)
\* The last n elements of s (all of s when it is shorter).
LastN(s, n) == IF Len(s) <= n THEN s ELSE SubSeq(s, Len(s) - n + 1, Len(s))

\* The store a bounded FIFO buffer holds after the first k appends.
StoreAfter(k) == LastN(SubSeq(appended, 1, k), Capacity)

\* Number of safe_read calls so far that returned a frame.
FramesRead == Cardinality({i \in 1..Len(cycles) : cycles[i] = "frame"})

\* C1: in every reachable state, also between the append and the eviction of
\* one loop iteration, analysis_logs holds at most Capacity entries.
C1_AtMostCapacity == Len(analysis_logs) <= Capacity

\* C2: once more than Capacity entries were appended and the iteration that
\* appended the last one is complete, analysis_logs holds exactly Capacity
\* entries: the Capacity most recently appended, oldest first.
C2_MostRecentWindow ==
    (pc # "evict" /\ Len(appended) > Capacity) =>
        /\ Len(analysis_logs) = Capacity
        /\ analysis_logs = SubSeq(appended, Len(appended) - Capacity + 1, Len(appended))

C2_Witness ==
    /\ pc = "read"
    /\ Len(appended) = Capacity + 2
    /\ analysis_logs[1].frame_number = 3

\* C3: the k-th appended entry has frame_number k (so numbers start at 1, grow
\* strictly and have no gap), and frame_count counts exactly the safe_read calls
\* that returned a frame: a failed cycle does not advance it.
C3_FrameNumbers ==
    /\ \A k \in 1..Len(appended) : appended[k].frame_number = k
    /\ \A j, k \in 1..Len(appended) :
        j < k => appended[j].frame_number < appended[k].frame_number
    /\ frame_count =
        FramesRead - (IF pc \in {"check_frame", "count"} /\ frame = "frame" THEN 1 ELSE 0)

C3_Witness ==
    /\ cycles = <<"frame", "None", "frame">>
    /\ Len(appended) = 2
    /\ appended[2].frame_number = 2

\* C4: every response of get_logs is the content a bounded FIFO store has after
\* some number of whole appends (append together with its eviction).
C4_SnapshotIsWholeAppendState ==
    response.status = 200 =>
        \E k \in 0..Len(appended) : response.body = StoreAfter(k)

\* C5: a safe_read call whose first read failed and whose read on the reopened
\* handle succeeded returns a frame, having released the handle it was given
\* exactly once and reopened the source exactly once, and returns normally.
C5_ReconnectRecovers ==
    (pc = "check_frame" /\ sr.ret1 = "fail" /\ sr.ret2 = "ok") =>
        /\ frame = "frame"
        /\ sr.releases = 1
        /\ sr.reopens = 1
        /\ handles[sr.cap_in].released
        /\ cap = sr.cap /\ cap # sr.cap_in
        /\ handles[cap].opened /\ ~handles[cap].released

C5_Witness == pc = "check_frame" /\ sr.ret1 = "fail" /\ sr.ret2 = "ok"

C6_FailedCycleReturnsNone ==
    (pc = "check_frame" /\ sr.ret1 = "fail" /\ sr.ret2 = "fail") => frame = "None"

C6_SkipStep ==
    (pc = "check_frame" /\ frame = "None" /\ pc' # pc) =>
        /\ pc' = "read"
        /\ UNCHANGED <<frame_count, analysis_logs, appended, describe_calls, description>>

\* C6: when both reads of a safe_read call fail it returns None (normally), and
\* the loop iteration that receives None goes straight to the next safe_read
\* call: frame_count and analysis_logs are unchanged and describe_image is not
\* called.
C6_FailedCycleSkipped == []C6_FailedCycleReturnsNone /\ [][C6_SkipStep]_vars

C6_Witness ==
    /\ pc = "read"
    /\ sr.ret1 = "fail" /\ sr.ret2 = "fail"
    /\ cycles = <<"frame", "None">>
    /\ frame_count = 1

AllWhitespace(s) == \A i \in 1..Len(s) : s[i] \in Whitespace

HasText(o) == o.kind = "text" /\ ~AllWhitespace(o.content)

IsStripOf(d, c) ==
    /\ d # <<>>
    /\ d[1] \notin Whitespace
    /\ d[Len(d)] \notin Whitespace
    /\ \E i \in 1..Len(c) :
        /\ i + Len(d) - 1 <= Len(c)
        /\ d = SubSeq(c, i, i + Len(d) - 1)
        /\ AllWhitespace(SubSeq(c, 1, i - 1))
        /\ AllWhitespace(SubSeq(c, i + Len(d), Len(c)))

\* C7: whatever ollama.chat did, describe_image returns a non-empty string: when
\* the response carries text that is not all whitespace, that text without its
\* leading and trailing whitespace; in every other case the fallback.
C7_DescribeNeverFails ==
    pc = "append" =>
        /\ Len(description) > 0
        /\ \A i \in 1..Len(description) : description[i] \in STRING
        /\ IF HasText(inference)
           THEN IsStripOf(description, inference.content)
           ELSE description = Fallback

C7_Witness ==
    /\ pc = "append"
    /\ inference.kind = "text"
    /\ Len(inference.content) >= 3
    /\ inference.content[1] \in Whitespace
    /\ inference.content[Len(inference.content)] \in Whitespace
    /\ description = <<"a">>

LoopHalted == pc \in {"fatal", "crashed"}

\* C8: once the source was opened at startup the loop never halts: the only
\* halt is the startup failure, every other failure being absorbed.
C8_OnlyStartupFailureHalts == LoopHalted => ~handles[1].opened

\* C9: once the process has exited on a shutdown signal, the loop has released
\* the capture handle it held, and analysis_logs holds only whole entries.
C9_ShutdownReleasesHandle ==
    process = "exited" =>
        /\ (cap # 0 /\ handles[cap].opened) => handles[cap].released
        /\ \A i \in 1..Len(analysis_logs) :
            \E k \in 1..Len(appended) : analysis_logs[i] = appended[k]

StartupFailed == handles # <<>> /\ ~handles[1].opened

C10_HaltedEmpty ==
    StartupFailed =>
        /\ pc = "fatal"
        /\ sr = NoCall /\ cycles = <<>>
        /\ describe_calls = 0
        /\ frame_count = 0
        /\ appended = <<>> /\ analysis_logs = <<>>
        /\ response.status # 0 => response = [status |-> 200, body |-> <<>>]

\* C10: if the source could not be opened at startup the loop has halted without
\* a single read, describe call or append, analysis_logs is empty, it stays that
\* way, and every /logs response is status 200 with an empty array.
C10_StartupFailureHalts == []C10_HaltedEmpty /\ [][pc = "fatal" => pc' = "fatal"]_vars

C10_Witness ==
    /\ pc = "fatal"
    /\ StartupFailed
    /\ response = [status |-> 200, body |-> <<>>]
    /\ \E r \in Readers : rpc[r] = "handling"

\* The loop thread has ended (return at app.py:67, or an exception after the
\* finally block).
LoopTerminated == pc \in {"fatal", "crashed"}

\* The loop stands at safe_read and only the model's bounds stop it there.
LoopAtBound ==
    /\ pc = "read"
    /\ \/ frame_count >= MaxFrames
       \/ Len(handles) >= MaxHandles /\ TRUE \notin ReadRets(handles[cap], BOOLEAN)

C11_NeverWaits ==
    (/\ process = "running"
     /\ \E r \in Readers : rpc[r] = "handling"
     /\ ~LoopTerminated
     /\ ~LoopAtBound) => ENABLED LoopStep

C11_RequestStepReadsOnly ==
    (rpc' # rpc \/ response' # response) =>
        UNCHANGED <<analysis_logs, frame_count, cap, handles, pc, appended>>

C11_OnlyLoopWrites ==
    analysis_logs' # analysis_logs => (pc \in {"append", "evict"} /\ pc' # pc /\ rpc' = rpc)

\* C11: a step of a get_logs request leaves analysis_logs, frame_count and the
\* capture handle unchanged; while a request is in progress the loop's next step
\* stays enabled; and analysis_logs changes only in the loop's append and evict
\* steps.
C11_ReadOnlyNonBlocking ==
    []C11_NeverWaits /\ [][C11_RequestStepReadsOnly /\ C11_OnlyLoopWrites]_vars

C11_Witness ==
    /\ \A r \in Readers : rpc[r] = "handling"
    /\ pc = "evict"
    /\ Len(analysis_logs) = 2
    /\ response = jsonify(<<>>)

\* C12: the entry appended carries the clock value, to the second, of the
\* moment of the append (app.py:87): the clock does not change between the
\* step that assigns the timestamp and the step that appends the entry.
C12_StampedAtAppend ==
    [][(pc = "append" /\ pc' = "evict") =>
        appended'[Len(appended')].timestamp = strftime(now)]_vars

\* C13 as stated: in every reachable state the number of describe_image calls
\* started equals the number of successful frame reads.
C13_CallsEqualReads == describe_calls = FramesRead

\* The frame last read has not reached its describe_image call.
FramePending ==
    \/ pc = "check_frame" /\ frame = "frame"
    \/ pc \in {"count", "stamp", "encode", "describe", "finally", "crashed"}

\* A describe_image call was started and its entry is not appended yet.
CallPending == pc \in {"describe_return", "append"}

\* C13 amended: calls are made one at a time by the loop thread; the number of
\* calls started is the number of successful reads, or one less exactly while the
\* frame last read has not reached its call (for good when encode_image raised);
\* the number of appends is the number of calls, or one less exactly while the
\* last call's entry is not appended yet; at the top of every iteration the three
\* numbers are equal.
C13_OneCallPerFrame ==
    /\ FramesRead = describe_calls + (IF FramePending THEN 1 ELSE 0)
    /\ describe_calls = Len(appended) + (IF CallPending THEN 1 ELSE 0)
    /\ pc = "read" => (FramesRead = describe_calls /\ describe_calls = Len(appended))

C13_Witness ==
    /\ pc = "read"
    /\ cycles = <<"None", "frame", "frame">>
    /\ describe_calls = 2
    /\ Len(appended) = 2

C14_Described ==
    \A i \in 1..Len(analysis_logs) :
        LET d == analysis_logs[i].description
        IN /\ d # <<>>
           /\ d = Fallback \/ (d[1] \notin Whitespace /\ d[Len(d)] \notin Whitespace)
           /\ \E k \in 1..Len(appended) : analysis_logs[i] = appended[k]

C14_InsertedAsDescribed ==
    (pc = "append" /\ pc' # pc) =>
        LET e == analysis_logs'[Len(analysis_logs')]
        IN /\ e.frame_number = frame_count /\ e.timestamp = timestamp
           /\ IF HasText(inference)
              THEN IsStripOf(e.description, inference.content)
              ELSE e.description = Fallback

C14_NeverMutated ==
    \/ analysis_logs' = analysis_logs
    \/ Len(analysis_logs') = Len(analysis_logs) + 1
         /\ SubSeq(analysis_logs', 1, Len(analysis_logs)) = analysis_logs
    \/ analysis_logs # <<>> /\ analysis_logs' = Tail(analysis_logs)

\* C14: every entry of analysis_logs has a non-empty description, which is the
\* stripped text the inference service returned for its frame or else the
\* fallback; and entries never change: a step leaves the list as it is, adds one
\* entry at the end or removes the first.
C14_EntriesDescribedAndImmutable ==
    []C14_Described /\ [][C14_InsertedAsDescribed /\ C14_NeverMutated]_vars

C14_Witness ==
    /\ Len(analysis_logs) = 2
    /\ analysis_logs[1].description = Fallback
    /\ analysis_logs[2].description = <<"a">>
    /\ pc = "read"

C15_Returned ==
    pc = "check_frame" =>
        IF sr.ret1 = "ok"
        THEN /\ cap = sr.cap_in
             /\ sr.releases = 0 /\ sr.reopens = 0
             /\ Len(handles) = sr.cap_in
             /\ ~handles[cap].released
        ELSE /\ sr.ret2 \in {"ok", "fail"}
             /\ cap # sr.cap_in
             /\ cap = Len(handles) /\ Len(handles) = sr.cap_in + 1
             /\ sr.releases = 1 /\ sr.reopens = 1
             /\ handles[sr.cap_in].released
             /\ ~handles[cap].released

C15_Replaced ==
    /\ cap' # cap => (pc = "start" \/ (pc = "reread" /\ sr.ret1 = "fail"))
    /\ (pc = "read" /\ pc' # pc) => (sr'.cap_in = cap /\ cap' = cap)

\* C15: a safe_read call whose first read succeeds returns the handle it was
\* given, with no release and no new capture object; a call whose first read
\* fails returns the capture object newly created by its one reopen (released:
\* the given one), whether the second read succeeds or not; the loop's handle
\* changes at no other point and is the one passed to the next call.
C15_HandleReplacedOnlyOnFailure == []C15_Returned /\ [][C15_Replaced]_vars

C15_Witness ==
    /\ pc = "read"
    /\ sr.ret1 = "fail" /\ sr.ret2 = "fail"
    /\ cap = 2 /\ sr.cap_in = 1
    /\ frame = "None"

\* The capture objects that hold the source open.
OpenHandles == {h \in 1..Len(handles) : handles[h].opened /\ ~handles[h].released}

\* The capture object the loop thread holds: safe_read's local between the
\* reopen and the return, the loop's `cap` otherwise.
Held == IF pc = "reread" THEN sr.cap ELSE cap

\* C16: at most one capture handle is open at any time; every capture object
\* other than the one the loop thread holds is released (so the old one is
\* released before the new one is created); and when the loop has left through
\* its finally block every capture object, the last one included, is released.
C16_NoHandleLeak ==
    /\ Cardinality(OpenHandles) <= 1
    /\ \A h \in 1..Len(handles) : ~handles[h].released => h = Held
    /\ pc = "reopen" => \A h \in 1..Len(handles) : handles[h].released
    /\ pc = "crashed" => \A h \in 1..Len(handles) : handles[h].released

C16_Witness ==
    /\ pc = "crashed"
    /\ Len(handles) = 2
    /\ sr.ret1 = "fail" /\ sr.ret2 = "ok"
    /\ handles[2].opened /\ handles[2].released

C17_FailedCycle ==
    (pc = "check_frame" /\ sr.ret1 = "fail") => (sr.releases = 1 /\ sr.reopens = 1)

C17_FailedCycleStep ==
    (pc = "check_frame" /\ frame = "None" /\ pc' # pc) =>
        (pc' = "read" /\ appended' = appended)

C17_Recovers ==
    \A n \in 0..(MaxFrames - 1) :
        [](pc = "release" /\ Len(appended) = n
             => <>(Len(appended) = n + 1 /\ appended[n + 1].frame_number = n + 1))

\* C17: every failed cycle makes one release and one reopen and leads back to
\* safe_read with nothing appended and the loop still running; and once reads
\* succeed again the loop, scheduled fairly, appends a new entry whose
\* frame_number is one more than that of the last entry appended before the
\* outage.
C17_ReconnectRecovers ==
    /\ []C17_FailedCycle
    /\ [][C17_FailedCycleStep]_vars
    /\ C17_Recovers

====
